---- MODULE Spec2Model ----
(***************************************************************************)
(* A model of the three programs of the workshop repository:               *)
(*   - db/CuAu/Au/submit_script        (a PBS batch script run by bash)     *)
(*   - pymatgen_core/pymatgen_core.ipynb  (a notebook, run cell by cell)    *)
(*   - manual_wflow/Si_bandstructure.ipynb (a notebook working on files)    *)
(* Each program is a process of its own with its own variables and its own *)
(* specification (SpecSubmit, SpecCore, SpecSi).                           *)
(***************************************************************************)
EXTENDS Integers, Sequences, FiniteSets, TLC

\* Exit statuses the two commands of submit_script are drawn from: 0..MaxStatus.
MaxStatus == 4

VARIABLES
  sh_pc,       \* submit_script: index of the next command line, Len+1 past the end, Len+2 exited
  sh_env,      \* submit_script: the value of $PBS_NODEFILE
  sh_log,      \* submit_script: the command lines executed so far, with their exit status
  sh_exit      \* submit_script: the script's own exit status (-1 while running)

shvars == <<sh_pc, sh_env, sh_log, sh_exit>>

VARIABLES
  core_pc,        \* pymatgen_core.ipynb: index in CoreStmts of the next statement
  core_names,     \* the kernel's namespace: the names bound so far
  core_first,     \* the kinds of library call made so far, in the order of their first call
  core_structure, \* the species of the sites of the object bound to `structure`
  core_fetched,   \* the species of `structure` as line 234 fetched it
  core_n,         \* the loop variable n of lines 235-237
  core_errors,    \* the errors raised so far: <<cell, line, error>>
  core_aborted    \* the run was stopped after an error

corevars == <<core_pc, core_names, core_first, core_structure, core_fetched,
              core_n, core_errors, core_aborted>>

VARIABLES
  si_pc,       \* Si_bandstructure.ipynb: index in SiStmts of the next statement
  si_names,    \* the kernel's namespace: the names bound so far
  si_cwd,      \* the kernel process's working directory, a path
  si_fs,       \* the file system: [dirs, files], two sets of paths
  si_sets,     \* the input sets bound to vis, static_vis and NonSCF_vis
  si_c,        \* the Custodian object bound to c
  si_events,   \* what the input sets and c.run() did, in order
  si_errors,   \* the errors that reached the kernel: <<cell, line, error>>
  si_aborted,  \* the run was stopped after an error
  si_copied,   \* per stage, the names the stage's cp copied into the working directory
  si_before,   \* per clean-up directory, the working directory as its mkdir found it
  si_start0    \* the file system as the run found it

sivars == <<si_pc, si_names, si_cwd, si_fs, si_sets, si_c, si_events, si_errors,
            si_aborted, si_copied, si_before, si_start0>>

(***************************************************************************)
(* submit_script                                                           *)
(***************************************************************************)

\* Lines 2-12: the #PBS directives. To bash they are comments; the scheduler reads them.
PBSDirectives ==
  [ q |-> "glean", N |-> "job", nodes |-> 1, ppn |-> 24, feature |-> "haswell",
    walltime |-> "24:00:00", o |-> "run_vasp.out", e |-> "job.err", V |-> TRUE,
    M |-> "ongsp@ucsd.edu", m |-> "a", A |-> "ong-group", d |-> "/home/ongsp/Li2O/Au" ]

\* A mutant of ScriptCommands: the script with the module load line left out.
ScriptCommandsNoModule ==
  << [ line |-> 15, argv0 |-> "run_vasp",
       args |-> <<"-c", "mpirun -machinefile $PBS_NODEFILE -np 24 /opt/vasp/5.4.1/bin/vasp",
                  "-z", "-s", "/oasis/tscc/scratch/ongsp", "relax", "relax">>,
       launcher |-> TRUE ] >>

\* Lines 14-15: the command lines of the script, in file order. "launcher" marks the
\* line that starts the job's binary; $PBS_NODEFILE is expanded when the line runs.
ScriptCommands ==
  << [ line |-> 14, argv0 |-> "module",
       args |-> <<"load", "vasp", "scipy/2.7">>, launcher |-> FALSE ],
     [ line |-> 15, argv0 |-> "run_vasp",
       args |-> <<"-c", "mpirun -machinefile $PBS_NODEFILE -np 24 /opt/vasp/5.4.1/bin/vasp",
                  "-z", "-s", "/oasis/tscc/scratch/ongsp", "relax", "relax">>,
       launcher |-> TRUE ] >>

\* Values $PBS_NODEFILE can have: unset (run by hand) or the scheduler's node file.
NodeFiles == {"", "/var/spool/torque/aux/job"}

ExitStatuses == 0..MaxStatus

\* A mutant of Expand: mpirun is asked for half as many processes.
ExpandHalf(cmd, nodefile) ==
  IF cmd.argv0 = "run_vasp"
    THEN <<"mpirun", "-machinefile", nodefile, "-np", "12", "/opt/vasp/5.4.1/bin/vasp">>
    ELSE <<>>

\* Parameter expansion of line 15: the -c argument with $PBS_NODEFILE replaced.
Expand(cmd, nodefile) ==
  IF cmd.argv0 = "run_vasp"
    THEN <<"mpirun", "-machinefile", nodefile, "-np", "24", "/opt/vasp/5.4.1/bin/vasp">>
    ELSE <<>>

\* The largest process count a word is read as.
MaxProcs == 64

\* The number a decimal word stands for, as mpirun reads the word after -np; -1 when
\* the word is not a decimal numeral of 0..MaxProcs.
ParseInt(word) ==
  IF \E n \in 0..MaxProcs : ToString(n) = word
    THEN CHOOSE n \in 0..MaxProcs : ToString(n) = word
    ELSE -1

\* The process count mpirun is given: the word that follows -np on its command line.
NpOf(inner) ==
  IF \E i \in 1..Len(inner) - 1 : inner[i] = "-np"
    THEN ParseInt(inner[(CHOOSE i \in 1..Len(inner) - 1 : inner[i] = "-np") + 1])
    ELSE -1

\* Line 4, -l nodes=1:ppn=24:haswell: the cores the scheduler is asked for.
RequestedCores == PBSDirectives.nodes * PBSDirectives.ppn

\* A mutant of ShNextPc: the script as if it ran under `set -e`.
ShNextPcErrexit(pc, status) ==
  IF status # 0 THEN Len(ScriptCommands) + 1 ELSE pc + 1

\* The script has no `set -e`, no test and no loop: after a command line, whatever its
\* exit status, bash goes on to the next line.
ShNextPc(pc, status) == pc + 1

\* bash runs command line i: the command's exit status is the environment's choice.
ShExec(i) ==
  /\ sh_pc = i
  /\ \E status \in ExitStatuses :
       /\ sh_log' = Append(sh_log,
                      [ line |-> ScriptCommands[i].line,
                        argv0 |-> ScriptCommands[i].argv0,
                        launcher |-> ScriptCommands[i].launcher,
                        inner |-> Expand(ScriptCommands[i], sh_env),
                        status |-> status ])
       /\ sh_pc' = ShNextPc(i, status)
  /\ UNCHANGED <<sh_env, sh_exit>>

\* line 14: module load vasp scipy/2.7
ShModuleLoad ==
  \E i \in DOMAIN ScriptCommands : ScriptCommands[i].argv0 = "module" /\ ShExec(i)

\* line 15: run_vasp -c "mpirun ..." -z -s ... relax relax
ShRunVasp ==
  \E i \in DOMAIN ScriptCommands : ScriptCommands[i].argv0 = "run_vasp" /\ ShExec(i)

\* End of file: the script exits with the status of the last command it ran.
ShEnd ==
  /\ sh_pc = Len(ScriptCommands) + 1
  /\ sh_exit' = IF sh_log = <<>> THEN 0 ELSE sh_log[Len(sh_log)].status
  /\ sh_pc' = Len(ScriptCommands) + 2
  /\ UNCHANGED <<sh_env, sh_log>>

ShInit ==
  /\ sh_pc = 1
  /\ sh_env \in NodeFiles
  /\ sh_log = <<>>
  /\ sh_exit = -1

ShNext == ShModuleLoad \/ ShRunVasp \/ ShEnd

ShEnded == sh_pc = Len(ScriptCommands) + 2

(***************************************************************************)
(* pymatgen_core/pymatgen_core.ipynb                                       *)
(***************************************************************************)

\* Sites of a fetched structure: 1..MaxSites.
MaxSites == 3

\* One statement of a code cell: its first and last source line, its code cell
\* (counted from 1), what it does, the kinds of library call it makes in evaluation
\* order, the names it reads and the names it binds.
ST(line, last, cell, op, kinds, uses, binds) ==
  [ line |-> line, last |-> last, cell |-> cell, op |-> op, kinds |-> kinds,
    uses |-> uses, binds |-> binds ]

\* The code cells of the notebook, top to bottom.
CoreStmts ==
  << ST(41, 41, 1, "import", <<>>, {}, {"Structure", "Lattice", "MPRester"}),
     \* cell 2: Making lattices
     ST(70, 70, 2, "call", <<"lattice">>, {"Lattice"}, {"lattice"}),
     ST(71, 71, 2, "call", <<"lattice">>, {"Lattice"}, {"lattice"}),
     ST(72, 75, 2, "call", <<"lattice">>, {"lattice"}, {}),
     ST(78, 80, 2, "call", <<>>, {"lattice"}, {}),
     \* cell 3: Making structures
     ST(125, 125, 3, "call", <<"structure">>, {"Structure", "lattice"}, {"bcc_fe"}),
     ST(126, 126, 3, "call", <<>>, {"bcc_fe"}, {"site0"}),
     ST(127, 129, 3, "call", <<>>, {"site0"}, {}),
     ST(133, 133, 3, "call", <<"lattice", "structure">>, {"Structure", "Lattice"}, {"bcc_fe"}),
     ST(134, 134, 3, "call", <<>>, {"bcc_fe"}, {}),
     ST(135, 136, 3, "call", <<"lattice", "structure">>, {"Structure", "Lattice"}, {"nacl"}),
     ST(137, 137, 3, "call", <<"structure">>, {"Structure"}, {"big_structure"}),
     ST(138, 138, 3, "call", <<>>, {"big_structure"}, {}),
     \* cell 4: Making disordered structures
     ST(175, 175, 4, "call", <<>>, {}, {"specie"}),
     ST(176, 176, 4, "call", <<"lattice", "structure">>,
        {"Structure", "Lattice", "specie"}, {"cu_au"}),
     ST(177, 177, 4, "call", <<>>, {"cu_au"}, {}),
     \* cell 5: Manipulating structures
     ST(196, 198, 5, "call", <<>>, {"big_structure"}, {}),
     ST(200, 202, 5, "call", <<>>, {"bcc_fe"}, {}),
     ST(204, 205, 5, "call", <<>>, {}, {"sd", "names"}),
     ST(206, 210, 5, "call", <<>>, {"big_structure", "sd"}, {"n"}),
     ST(211, 212, 5, "call", <<>>, {"big_structure", "sd"}, {}),
     \* cell 6: Exercise 1
     ST(232, 232, 6, "call", <<>>, {"MPRester"}, {"mpr"}),
     ST(234, 234, 6, "fetch", <<>>, {"mpr"}, {"structure"}),
     ST(235, 237, 6, "loop", <<>>, {"structure"}, {"n"}),
     ST(240, 240, 6, "replace", <<>>, {"structure"}, {}),
     \* cell 7: Using transformations
     ST(272, 273, 7, "import", <<>>, {},
        {"SubstitutionTransformation", "DeformStructureTransformation",
         "OrderDisorderedStructureTransformation", "RotationTransformation"}),
     ST(274, 274, 7, "fetch", <<>>, {"mpr"}, {"structure"}),
     ST(275, 275, 7, "call", <<>>, {"SubstitutionTransformation"}, {"st"}),
     ST(276, 276, 7, "call", <<>>, {"st", "structure"}, {"new_structure"}),
     ST(277, 277, 7, "call", <<>>, {"st", "new_structure"}, {"old_structure"}),
     ST(278, 278, 7, "call", <<>>, {"old_structure", "structure"}, {}),
     ST(281, 281, 7, "call", <<>>, {"OrderDisorderedStructureTransformation"}, {"odst"}),
     ST(282, 282, 7, "call", <<>>, {"odst", "cu_au"}, {"ss"}),
     ST(283, 283, 7, "call", <<>>, {"ss"}, {}),
     \* cell 8: SpacegroupAnalyzer
     ST(316, 316, 8, "import", <<>>, {}, {"SpacegroupAnalyzer"}),
     ST(317, 317, 8, "call", <<"symmetry">>, {"SpacegroupAnalyzer", "bcc_fe"}, {"sga"}),
     ST(318, 318, 8, "call", <<"symmetry">>, {"sga"}, {"prim"}),
     ST(319, 321, 8, "call", <<"symmetry">>, {"sga"}, {}),
     \* cell 9: StructureMatcher
     ST(350, 350, 9, "import", <<>>, {}, {"StructureMatcher"}),
     ST(351, 351, 9, "call", <<"matcher">>, {"StructureMatcher"}, {"sm"}),
     ST(352, 352, 9, "call", <<"matcher">>, {"sm", "bcc_fe", "prim"}, {}),
     \* cells 10, 11: Exercise 2
     ST(373, 374, 10, "call", <<>>, {"mpr"}, {"query"}),
     ST(385, 385, 11, "call", <<>>, {"query"}, {"structures"}),
     ST(386, 386, 11, "call", <<>>, {"mpr"}, {"wo3"}),
     ST(387, 387, 11, "call", <<"matcher">>, {"StructureMatcher"}, {"sm"}),
     ST(389, 389, 11, "call", <<>>, {}, {"matches"}),
     ST(391, 393, 11, "forstructure", <<"matcher">>,
        {"structures", "sm", "wo3", "matches"}, {"structure"}),
     \* cell 12: XRDCalculator
     ST(414, 414, 12, "import", <<>>, {}, {"XRDCalculator", "ATOMIC_SCATTERING_PARAMS"}),
     ST(415, 415, 12, "call", <<>>, {"XRDCalculator"}, {}),
     ST(416, 416, 12, "call", <<"xrd">>, {"XRDCalculator"}, {"xrdc"}),
     ST(417, 417, 12, "call", <<"xrd">>, {"xrdc", "big_structure"}, {"big_xrd"}),
     \* cell 13: %matplotlib inline
     ST(428, 429, 13, "call", <<>>, {}, {}),
     \* cell 14: Exercise 3
     ST(467, 467, 14, "call", <<>>, {"mpr"}, {"lis_structures"}),
     ST(468, 468, 14, "call", <<"xrd">>, {"xrdc", "lis_structures"}, {"data"}),
     ST(469, 473, 14, "call", <<"xrd">>, {"xrdc", "lis_structures"},
        {"n", "lis_structure", "data"}),
     \* cell 15: band structure and DOS of TiO2
     ST(499, 501, 15, "import", <<>>, {},
        {"XRDCalculator", "BSPlotter", "DosPlotter", "OrbitalType"}),
     ST(503, 504, 15, "call", <<>>, {"mpr"}, {"bs"}),
     ST(505, 505, 15, "call", <<>>, {"BSPlotter", "bs"}, {"plotter"}),
     ST(509, 509, 15, "call", <<>>, {"mpr"}, {"dos"}),
     ST(510, 510, 15, "call", <<>>, {"DosPlotter"}, {"dp"}),
     ST(511, 512, 15, "call", <<>>, {"dos"}, {"dos_ti", "dos_o"}),
     ST(513, 514, 15, "call", <<>>, {"dp", "dos_o", "dos_ti", "OrbitalType"}, {}),
     \* cell 16: Exercise 5, tensors
     ST(567, 567, 16, "import", <<>>, {}, {"json"}),
     ST(568, 568, 16, "call", <<>>, {"json"}, {"data"}),
     ST(569, 569, 16, "call", <<"structure">>, {"Structure", "data"}, {"si_struct"}),
     ST(570, 570, 16, "call", <<>>, {"ElasticTensor", "data"}, {"et"}),
     ST(572, 572, 16, "call", <<>>, {"data"}, {}),
     ST(573, 573, 16, "call", <<"tensor">>, {"et", "si_struct"}, {}),
     \* cell 17: surfaces
     ST(610, 611, 17, "import", <<>>, {}, {"SpacegroupAnalyzer", "generate_all_slabs"}),
     ST(612, 612, 17, "call", <<"lattice">>, {"Lattice"}, {"lattice"}),
     ST(613, 614, 17, "makefe", <<"structure">>, {"Structure", "lattice"}, {"structure"}),
     ST(616, 616, 17, "call", <<"slab">>, {"generate_all_slabs", "structure"}, {"slabs"}),
     ST(617, 618, 17, "call", <<>>, {"slabs"}, {"first_slab"}),
     ST(619, 620, 17, "call", <<>>, {"slabs"}, {"slab"}) >>

CoreLen == Len(CoreStmts)

\* The species a structure fetched for the formula BaNiO3 can hold.
FormulaSpecies == {"Ba", "Ni", "O"}

\* The structures of at most MaxSites sites over a set of species.
StructuresOver(species) == UNION { [1..k -> species] : k \in 1..MaxSites }

\* What mpr.get_structures("BaNiO3")[0] can return: an oxide.
FetchedStructures == { s \in StructuresOver(FormulaSpecies) : \E i \in DOMAIN s : s[i] = "O" }

\* Two stand-ins for the structures the query of lines 373-374 (A B3 C6) returns.
QueryStructures == { <<"Pr", "N", "F">>, <<"La", "N", "F">> }

\* Line 613: Structure(lattice, ["Fe", "Fe"], ...).
FeStructure == <<"Fe", "Fe">>

\* structure[n] = sp, with Python's index n counted from 0.
SetSite(s, n, sp) == [s EXCEPT ![n + 1] = sp]

\* structure.replace_species({from: to}): every site holding `from` holds `to`.
ReplaceSpecies(s, from, to) == [i \in DOMAIN s |-> IF s[i] = from THEN to ELSE s[i]]

\* Lines 236-237: the species the loop looks for and the species it writes.
LoopFrom == "O"
LoopTo == "F"

\* Line 240: structure.replace_species({'F':'O'}).
BonusFrom == "F"
BonusTo == "O"

\* The first statement after the cell of statement i.
NextCell(stmts, i) ==
  IF \E j \in i + 1..Len(stmts) : stmts[j].cell # stmts[i].cell
    THEN CHOOSE j \in i + 1..Len(stmts) :
           /\ stmts[j].cell # stmts[i].cell
           /\ \A k \in i + 1..j - 1 : stmts[k].cell = stmts[i].cell
    ELSE Len(stmts) + 1

\* The kinds called so far after a statement has made the calls `kinds`, in order.
RECURSIVE NoteCalls(_, _)
NoteCalls(first, kinds) ==
  IF kinds = <<>> THEN first
  ELSE NoteCalls(IF \E i \in DOMAIN first : first[i] = Head(kinds)
                   THEN first ELSE Append(first, Head(kinds)),
                 Tail(kinds))

CoreCur == CoreStmts[core_pc]

CoreRunning == ~core_aborted /\ core_pc <= CoreLen

\* Statement CoreCur can be executed: every name it reads is bound.
CoreReady(op) ==
  /\ CoreRunning
  /\ CoreCur.op = op
  /\ CoreCur.uses \subseteq core_names

\* The bookkeeping of a statement that ran to its end.
CoreDone ==
  /\ core_names' = core_names \cup CoreCur.binds
  /\ core_first' = NoteCalls(core_first, CoreCur.kinds)
  /\ core_pc' = core_pc + 1
  /\ UNCHANGED <<core_errors, core_aborted>>

\* from ... import ...
CoreImport ==
  /\ CoreReady("import")
  /\ CoreDone
  /\ UNCHANGED <<core_structure, core_fetched, core_n>>

\* A statement that calls the library or reads an attribute and leaves `structure` alone.
CoreCall ==
  /\ CoreReady("call")
  /\ CoreDone
  /\ UNCHANGED <<core_structure, core_fetched, core_n>>

\* Lines 234, 274: structure = mpr.get_structures("BaNiO3")[0]
CoreFetch ==
  /\ CoreReady("fetch")
  /\ \E s \in FetchedStructures :
       /\ core_structure' = s
       /\ core_fetched' = IF CoreCur.line = 234 THEN s ELSE core_fetched
  /\ CoreDone
  /\ UNCHANGED core_n

\* Lines 235-237, one turn of the loop: if structure[n].species_string == 'O': structure[n] = 'F'
CoreLoopBody ==
  /\ CoreReady("loop")
  /\ core_n < Len(core_structure)
  /\ core_structure' = IF core_structure[core_n + 1] = LoopFrom
                         THEN SetSite(core_structure, core_n, LoopTo)
                         ELSE core_structure
  /\ core_n' = core_n + 1
  /\ UNCHANGED <<core_pc, core_names, core_first, core_fetched, core_errors, core_aborted>>

\* Lines 235-237: range(structure.num_sites) is exhausted.
CoreLoopEnd ==
  /\ CoreReady("loop")
  /\ core_n = Len(core_structure)
  /\ core_n' = 0
  /\ CoreDone
  /\ UNCHANGED <<core_structure, core_fetched>>

\* Line 240: structure.replace_species({'F':'O'})
CoreReplaceSpecies ==
  /\ CoreReady("replace")
  /\ core_structure' = ReplaceSpecies(core_structure, BonusFrom, BonusTo)
  /\ CoreDone
  /\ UNCHANGED <<core_fetched, core_n>>

\* Lines 391-393: for structure in structures: ... ; `structure` is left bound to the
\* last structure of the list, or as it was when the list is empty.
CoreForStructure ==
  /\ CoreReady("forstructure")
  /\ \E s \in QueryStructures \cup {core_structure} : core_structure' = s
  /\ CoreDone
  /\ UNCHANGED <<core_fetched, core_n>>

\* Lines 613-614: structure = Structure(lattice, ["Fe", "Fe"], ...)
CoreMakeFe ==
  /\ CoreReady("makefe")
  /\ core_structure' = FeStructure
  /\ CoreDone
  /\ UNCHANGED <<core_fetched, core_n>>

\* A statement that reads an unbound name raises NameError: the rest of its cell is
\* skipped, and either the run stops (Run All) or the next cell is run (by hand).
CoreNameError ==
  /\ CoreRunning
  /\ ~(CoreCur.uses \subseteq core_names)
  /\ core_errors' = Append(core_errors, <<CoreCur.cell, CoreCur.line, "NameError">>)
  /\ \E goOn \in BOOLEAN :
       /\ core_aborted' = ~goOn
       /\ core_pc' = IF goOn THEN NextCell(CoreStmts, core_pc) ELSE core_pc
  /\ UNCHANGED <<core_names, core_first, core_structure, core_fetched, core_n>>

CoreInit ==
  /\ core_pc = 1
  /\ core_names = {}
  /\ core_first = <<>>
  /\ core_structure = <<>>
  /\ core_fetched = <<>>
  /\ core_n = 0
  /\ core_errors = <<>>
  /\ core_aborted = FALSE

CoreNext ==
  \/ CoreImport \/ CoreCall \/ CoreFetch \/ CoreLoopBody \/ CoreLoopEnd
  \/ CoreReplaceSpecies \/ CoreForStructure \/ CoreMakeFe \/ CoreNameError

\* The run is over: every cell was run, or the run was stopped at an error.
CoreRunOver == core_aborted \/ core_pc > CoreLen

\* Cell c has run to its end without an error and no later statement has run.
CoreJustRan(c) ==
  /\ ~core_aborted
  /\ core_pc <= CoreLen
  /\ core_pc > 1
  /\ CoreStmts[core_pc - 1].cell = c
  /\ CoreStmts[core_pc].cell # c
  /\ \A i \in DOMAIN core_errors : core_errors[i][1] # c

(***************************************************************************)
(* manual_wflow/Si_bandstructure.ipynb                                     *)
(***************************************************************************)

\* One statement of a code cell: its first and last source line, its code cell
\* (counted from 1), what it does, its argument, the names it reads and binds.
SiST(line, last, cell, op, arg, uses, binds) ==
  [ line |-> line, last |-> last, cell |-> cell, op |-> op, arg |-> arg,
    uses |-> uses, binds |-> binds ]

\* The code cells of the notebook, top to bottom. A `!` line is run by a shell of its
\* own and never raises in the kernel.
SiStmts ==
  << SiST(43, 48, 1, "import", "", {}, {"pprint", "os", "tarfile", "glob", "matplotlib"}),
     \* cell 2: Setup
     SiST(63, 63, 2, "osmkdir", "Si_BandStructure", {"os"}, {}),
     SiST(64, 64, 2, "oschdir", "Si_BandStructure", {"os"}, {}),
     \* cells 3-8: building a VASP input set by hand
     SiST(100, 100, 3, "import", "", {}, {"PymatgenTest"}),
     SiST(101, 101, 3, "call", "", {"PymatgenTest"}, {"struct_si"}),
     SiST(102, 102, 3, "call", "", {"struct_si"}, {}),
     SiST(124, 124, 4, "import", "", {}, {"Poscar"}),
     SiST(126, 126, 4, "call", "", {"Poscar", "struct_si"}, {"Pos"}),
     SiST(127, 127, 4, "call", "", {"Pos"}, {}),
     SiST(149, 149, 5, "import", "", {}, {"Kpoints"}),
     SiST(151, 152, 5, "call", "", {"Kpoints", "struct_si"}, {"kp"}),
     SiST(153, 153, 5, "call", "", {"kp"}, {}),
     SiST(177, 177, 6, "import", "", {}, {"Potcar"}),
     SiST(179, 179, 6, "call", "", {"Potcar"}, {"pots"}),
     SiST(180, 180, 6, "call", "", {"pots"}, {}),
     SiST(199, 199, 7, "call", "", {"Potcar"}, {"pots_lda"}),
     SiST(200, 200, 7, "call", "", {"pots"}, {}),
     SiST(222, 222, 8, "import", "", {}, {"Incar"}),
     SiST(224, 239, 8, "call", "", {"Incar"}, {"inc"}),
     SiST(240, 240, 8, "call", "", {"inc"}, {}),
     \* cell 9: the optimization input set
     SiST(261, 261, 9, "import", "", {}, {"MPRelaxSet"}),
     SiST(263, 263, 9, "build", "vis", {"MPRelaxSet", "struct_si"}, {"vis"}),
     SiST(265, 268, 9, "call", "", {"vis"}, {}),
     SiST(269, 269, 9, "write", "vis", {"vis"}, {}),
     \* cell 10: pretend to run VASP
     SiST(290, 290, 10, "cp", "Si_Opt", {}, {}),
     SiST(291, 291, 10, "call", "", {}, {}),
     \* cell 11: parse outputs
     SiST(323, 323, 11, "import", "", {}, {"Vasprun"}),
     SiST(325, 325, 11, "readfile", "vasprun.xml", {"Vasprun"}, {"vrun"}),
     SiST(326, 326, 11, "call", "", {"vrun"}, {}),
     \* cell 12: clean up
     SiST(349, 349, 12, "shmkdir", "opt", {}, {}),
     SiST(350, 350, 12, "shmv", "opt", {}, {}),
     SiST(351, 351, 12, "call", "", {}, {}),
     \* cell 13: the static input set
     SiST(370, 370, 13, "import", "", {}, {"MPStaticSet"}),
     SiST(371, 371, 13, "fromprev", "static_vis", {"MPStaticSet"}, {"static_vis"}),
     SiST(372, 372, 13, "write", "static_vis", {"static_vis"}, {}),
     SiST(373, 373, 13, "call", "", {}, {}),
     \* cell 14: custodian
     SiST(397, 400, 14, "import", "", {},
          {"Custodian", "VaspErrorHandler", "VaspJob", "VasprunXMLValidator"}),
     SiST(402, 402, 14, "call", "", {"VaspErrorHandler"}, {"handlers"}),
     SiST(403, 403, 14, "call", "", {"VaspJob"}, {"jobs"}),
     SiST(404, 404, 14, "call", "", {"VasprunXMLValidator"}, {"validators"}),
     SiST(406, 406, 14, "custodian", "", {"Custodian", "handlers", "jobs", "validators"}, {"c"}),
     SiST(407, 407, 14, "run", "", {"c"}, {}),
     \* cell 15: the static outputs, and custodian again
     SiST(429, 429, 15, "cp", "Si_Static", {}, {}),
     SiST(431, 431, 15, "run", "", {"c"}, {}),
     \* cell 16: prepare the static calculation's output
     SiST(452, 452, 16, "shmkdir", "static", {}, {}),
     SiST(453, 453, 16, "shmv", "static", {}, {}),
     \* cells 17, 18: the non-SCF input set
     SiST(472, 472, 17, "import", "", {}, {"MPNonSCFSet"}),
     SiST(474, 474, 17, "fromprev", "NonSCF_vis", {"MPNonSCFSet"}, {"NonSCF_vis"}),
     SiST(475, 475, 17, "printkpoints", "NonSCF_vis", {"NonSCF_vis"}, {}),
     SiST(487, 487, 18, "write", "NonSCF_vis", {"NonSCF_vis"}, {}),
     SiST(488, 488, 18, "call", "", {}, {}),
     \* cell 19: pretend to run VASP
     SiST(509, 509, 19, "cp", "Si_NonSCF", {}, {}),
     SiST(510, 510, 19, "call", "", {}, {}),
     \* cell 20: plot the band structure
     SiST(531, 532, 20, "import", "", {}, {"Vasprun", "BSPlotter"}),
     SiST(534, 534, 20, "readfile", "vasprun.xml", {"Vasprun"}, {"vrun"}),
     SiST(535, 535, 20, "readfile", "KPOINTS", {"vrun"}, {"band_struc"}),
     SiST(536, 536, 20, "call", "", {"BSPlotter", "band_struc"}, {"bs_plotter"}),
     SiST(537, 537, 20, "call", "", {"bs_plotter"}, {}),
     \* cell 21: Finalize
     SiST(558, 558, 21, "oschdir", "..", {"os"}, {}),
     SiST(559, 559, 21, "shrmrf", "Si_BandStructure", {}, {}) >>

SiLen == Len(SiStmts)

\* The directory the kernel is started in (the notebook's), and its parent <<>>.
StartDir == <<"manual_wflow">>

\* Lines 63-64: the working directory the notebook makes.
WorkDir == StartDir \o <<"Si_BandStructure">>

\* Lines 290, 429, 509: ../outputs, seen from the working directory.
OutputsDir == StartDir \o <<"outputs">>

Stages == {"Si_Opt", "Si_Static", "Si_NonSCF"}

\* The files write_input writes (lines 79-83).
InputFiles == {"INCAR", "KPOINTS", "POSCAR", "POTCAR"}

\* The output files every ../outputs/<stage> provides: the ones the notebook goes on to
\* read (lines 325, 371, 474, 534).
PrevCalcFiles == {"vasprun.xml", "OUTCAR"}

\* Output files a ../outputs/<stage> may hold besides (lines 302-308).
ExtraOutputs == {"CONTCAR"}

\* The files c.run() may leave in the working directory.
CustodianFiles == {"custodian.json"}

\* The errors c.run() may raise.
RunErrors == {"RuntimeError", "OSError"}

\* Names the shell's * does not match: those that start with a dot.
HiddenNames == {".ipynb_checkpoints"}

IsUnder(p, d) == Len(p) >= Len(d) /\ SubSeq(p, 1, Len(d)) = d

Rebase(p, from, to) == to \o SubSeq(p, Len(from) + 1, Len(p))

Parent(d) == IF d = <<>> THEN <<>> ELSE SubSeq(d, 1, Len(d) - 1)

Exists(fs, p) == p \in fs.dirs \cup fs.files

\* The names of the entries of directory d.
Children(fs, d) ==
  { p[Len(p)] : p \in { q \in fs.dirs \cup fs.files : Len(q) = Len(d) + 1 /\ IsUnder(q, d) } }

\* Everything below directory d, as paths relative to d.
Subtree(fs, d) ==
  { Rebase(p, d, <<>>) : p \in { q \in fs.dirs \cup fs.files : Len(q) > Len(d) /\ IsUnder(q, d) } }

\* The expansion of * in directory d.
Glob(fs, d) == Children(fs, d) \ HiddenNames

\* A path name as os.chdir takes it.
Resolve(cwd, name) == IF name = ".." THEN Parent(cwd) ELSE cwd \o <<name>>

\* A mutant of MvInto: mv without the check that keeps a directory out of itself.
MvIntoSelf(fs, cwd, D) ==
  LET target == cwd \o <<D>>
      moved == IF target \in fs.dirs THEN Glob(fs, cwd) ELSE {}
      Map(p) == IF \E e \in moved : IsUnder(p, cwd \o <<e>>) THEN Rebase(p, cwd, target) ELSE p
  IN [ dirs |-> { Map(p) : p \in fs.dirs }, files |-> { Map(p) : p \in fs.files } ]

\* Lines 350, 453: mv * D in directory cwd. The glob holds D itself; mv refuses to move
\* a directory into itself, reports it and moves the other sources.
MvInto(fs, cwd, D) ==
  LET target == cwd \o <<D>>
      sources == Glob(fs, cwd)
      Movable(e) ==
        /\ e # D
        /\ \/ ~Exists(fs, target \o <<e>>)
           \/ cwd \o <<e>> \in fs.files /\ target \o <<e>> \in fs.files
           \/ /\ cwd \o <<e>> \in fs.dirs
              /\ target \o <<e>> \in fs.dirs
              /\ Children(fs, target \o <<e>>) = {}
      moved == IF target \in fs.dirs THEN { e \in sources : Movable(e) } ELSE {}
      Map(p) == IF \E e \in moved : IsUnder(p, cwd \o <<e>>) THEN Rebase(p, cwd, target) ELSE p
  IN [ dirs |-> { Map(p) : p \in fs.dirs }, files |-> { Map(p) : p \in fs.files } ]

\* A mutant of RmRf: rm -f without -R, which leaves a directory alone.
RmF(fs, path) ==
  [ dirs |-> fs.dirs, files |-> fs.files \ {path} ]

\* Line 559: rm -Rf path.
RmRf(fs, path) ==
  [ dirs |-> { p \in fs.dirs : ~IsUnder(p, path) },
    files |-> { p \in fs.files : ~IsUnder(p, path) } ]

\* Lines 290, 429, 509: the files cp ../outputs/<stage>/* . copies, by name. cp without
\* -r leaves directories out.
CpNames(fs, cwd, stage) ==
  LET src == Parent(cwd) \o <<"outputs", stage>>
  IN IF src \in fs.dirs THEN { f \in Glob(fs, src) : src \o <<f>> \in fs.files } ELSE {}

\* Where cp puts file f: in the working directory, or inside a directory of that name.
CpDest(fs, cwd, f) ==
  IF cwd \o <<f>> \in fs.dirs THEN cwd \o <<f, f>> ELSE cwd \o <<f>>

\* A mutant of WriteFiles: the files land in the parent of d.
WriteFilesParent(fs, d, names) ==
  [ fs EXCEPT !.files = @ \cup { Parent(d) \o <<f>> : f \in names } ]

\* Writing the files `names` into directory d.
WriteFiles(fs, d, names) ==
  [ fs EXCEPT !.files = @ \cup { d \o <<f>> : f \in { g \in names : d \o <<g>> \notin fs.dirs } } ]

\* How each input set is constructed: lines 263, 371, 474.
SetCtor(name) ==
  CASE name = "vis" ->
         [ bound |-> TRUE, cls |-> "MPRelaxSet", prev |-> "", stage |-> "opt",
           kwargs |-> {<<"force_gamma", "True">>} ]
    [] name = "static_vis" ->
         [ bound |-> TRUE, cls |-> "MPStaticSet", prev |-> "opt", stage |-> "static",
           kwargs |-> {} ]
    [] name = "NonSCF_vis" ->
         [ bound |-> TRUE, cls |-> "MPNonSCFSet", prev |-> "static", stage |-> "nonscf",
           kwargs |-> {<<"mode", "Line">>} ]

SetNames == {"vis", "static_vis", "NonSCF_vis"}

NoSet == [ bound |-> FALSE, cls |-> "", prev |-> "", stage |-> "", kwargs |-> {} ]

\* Lines 402-404: the components the Custodian is given, each with the keyword
\* arguments of its constructor call.
HandlersArg == << [ cls |-> "VaspErrorHandler", kwargs |-> {} ] >>
JobsArg == << [ cls |-> "VaspJob", kwargs |-> {"vasp_cmd"}, vasp_cmd |-> <<"echo", "hello">> ] >>
ValidatorsArg == << [ cls |-> "VasprunXMLValidator", kwargs |-> {} ] >>

NoCustodian == [ bound |-> FALSE, handlers |-> <<>>, jobs |-> <<>>, validators |-> <<>> ]

\* A mutant of SiExcept: c.run() wrapped in a try with a bare except.
SiExceptAll(cell) == RunErrors

\* The exceptions cell `cell` catches itself: the notebook has no try statement.
SiExcept(cell) == {}

Event(ev, set, stage, settings, held, outcome) ==
  [ ev |-> ev, set |-> set, stage |-> stage, settings |-> settings, held |-> held,
    outcome |-> outcome, cwd |-> si_cwd, cell |-> SiStmts[si_pc].cell ]

SiCur == SiStmts[si_pc]

SiRunning == ~si_aborted /\ si_pc <= SiLen

SiReady(op) ==
  /\ SiRunning
  /\ SiCur.op = op
  /\ SiCur.uses \subseteq si_names

\* The statement ran to its end.
SiOk ==
  /\ si_pc' = si_pc + 1
  /\ si_names' = si_names \cup SiCur.binds
  /\ UNCHANGED <<si_errors, si_aborted>>

\* The statement raised e. Uncaught, e reaches the kernel: the rest of the cell is
\* skipped, and either the run stops (Run All) or the next cell is run (by hand).
SiFail(e) ==
  /\ UNCHANGED si_names
  /\ IF e \in SiExcept(SiCur.cell)
       THEN /\ si_pc' = si_pc + 1
            /\ UNCHANGED <<si_errors, si_aborted>>
       ELSE /\ si_errors' = Append(si_errors, <<SiCur.cell, SiCur.line, e>>)
            /\ \E goOn \in BOOLEAN :
                 /\ si_aborted' = ~goOn
                 /\ si_pc' = IF goOn THEN NextCell(SiStmts, si_pc) ELSE si_pc

SiGhosts == <<si_copied, si_before, si_start0>>

SiImport ==
  /\ SiReady("import")
  /\ SiOk
  /\ UNCHANGED <<si_cwd, si_fs, si_sets, si_c, si_events, SiGhosts>>

\* A library call, a print or !ls: no effect on the files or the objects modelled.
SiCall ==
  /\ SiReady("call")
  /\ SiOk
  /\ UNCHANGED <<si_cwd, si_fs, si_sets, si_c, si_events, SiGhosts>>

\* Line 63: os.mkdir("Si_BandStructure") raises OSError when the name exists.
SiOsMkdir ==
  /\ SiReady("osmkdir")
  /\ IF Exists(si_fs, si_cwd \o <<SiCur.arg>>)
       THEN SiFail("OSError") /\ UNCHANGED si_fs
       ELSE SiOk /\ si_fs' = [si_fs EXCEPT !.dirs = @ \cup {si_cwd \o <<SiCur.arg>>}]
  /\ UNCHANGED <<si_cwd, si_sets, si_c, si_events, SiGhosts>>

\* Lines 64, 558: os.chdir(name) raises OSError when name is no directory.
SiOsChdir ==
  /\ SiReady("oschdir")
  /\ IF Resolve(si_cwd, SiCur.arg) \in si_fs.dirs
       THEN SiOk /\ si_cwd' = Resolve(si_cwd, SiCur.arg)
       ELSE SiFail("OSError") /\ UNCHANGED si_cwd
  /\ UNCHANGED <<si_fs, si_sets, si_c, si_events, SiGhosts>>

\* Line 263: vis = MPRelaxSet(struct_si, force_gamma=True)
SiBuild ==
  /\ SiReady("build")
  /\ si_sets' = [si_sets EXCEPT ![SiCur.arg] = SetCtor(SiCur.arg)]
  /\ si_events' = Append(si_events,
                    Event("build", SiCur.arg, SetCtor(SiCur.arg).stage,
                          SetCtor(SiCur.arg).kwargs, {}, "ok"))
  /\ SiOk
  /\ UNCHANGED <<si_cwd, si_fs, si_c, SiGhosts>>

\* Lines 371, 474: <set> = <class>.from_prev_calc("./<prev>", ...) reads vasprun.xml and
\* OUTCAR of the previous calculation's directory and raises when it cannot.
SiFromPrev ==
  /\ SiReady("fromprev")
  /\ LET ctor == SetCtor(SiCur.arg)
         dir == si_cwd \o <<ctor.prev>>
     IN IF dir \in si_fs.dirs /\ PrevCalcFiles \subseteq Children(si_fs, dir)
          THEN /\ si_sets' = [si_sets EXCEPT ![SiCur.arg] = ctor]
               /\ si_events' = Append(si_events,
                                 Event("build", SiCur.arg, ctor.stage, ctor.kwargs,
                                       Children(si_fs, dir), "ok"))
               /\ SiOk
          ELSE /\ SiFail("ValueError")
               /\ UNCHANGED <<si_sets, si_events>>
  /\ UNCHANGED <<si_cwd, si_fs, si_c, SiGhosts>>

\* Lines 269, 372, 487: <set>.write_input(".")
SiWriteInput ==
  /\ SiReady("write")
  /\ si_fs' = WriteFiles(si_fs, si_cwd, InputFiles)
  /\ si_events' = Append(si_events,
                    Event("write", SiCur.arg, si_sets[SiCur.arg].stage,
                          si_sets[SiCur.arg].kwargs, {}, "ok"))
  /\ SiOk
  /\ UNCHANGED <<si_cwd, si_sets, si_c, SiGhosts>>

\* Line 475: print(NonSCF_vis.kpoints)
SiPrintKpoints ==
  /\ SiReady("printkpoints")
  /\ si_events' = Append(si_events,
                    Event("print", SiCur.arg, si_sets[SiCur.arg].stage,
                          si_sets[SiCur.arg].kwargs, {}, "ok"))
  /\ SiOk
  /\ UNCHANGED <<si_cwd, si_fs, si_sets, si_c, SiGhosts>>

\* Lines 290, 429, 509: !cp ../outputs/<stage>/* .
SiCp ==
  /\ SiReady("cp")
  /\ LET names == CpNames(si_fs, si_cwd, SiCur.arg)
     IN /\ si_fs' = [si_fs EXCEPT !.files = @ \cup { CpDest(si_fs, si_cwd, f) : f \in names }]
        /\ si_copied' = [si_copied EXCEPT ![SiCur.arg] = names]
  /\ SiOk
  /\ UNCHANGED <<si_cwd, si_sets, si_c, si_events, si_before, si_start0>>

\* Lines 325, 534, 535: Vasprun("vasprun.xml") and get_band_structure(kpoints_filename=
\* "KPOINTS") read a file of the working directory and raise IOError when it is missing.
SiReadFile ==
  /\ SiReady("readfile")
  /\ IF si_cwd \o <<SiCur.arg>> \in si_fs.files THEN SiOk ELSE SiFail("IOError")
  /\ UNCHANGED <<si_cwd, si_fs, si_sets, si_c, si_events, SiGhosts>>

\* Lines 349, 452: !mkdir D; it fails, and changes nothing, when D exists.
SiShMkdir ==
  /\ SiReady("shmkdir")
  /\ si_before' = [si_before EXCEPT ![SiCur.arg] =
                     [ seen |-> TRUE, cwd |-> si_cwd,
                       entries |-> Children(si_fs, si_cwd),
                       subtree |-> Subtree(si_fs, si_cwd) ]]
  /\ si_fs' = IF Exists(si_fs, si_cwd \o <<SiCur.arg>>)
                THEN si_fs
                ELSE [si_fs EXCEPT !.dirs = @ \cup {si_cwd \o <<SiCur.arg>>}]
  /\ SiOk
  /\ UNCHANGED <<si_cwd, si_sets, si_c, si_events, si_copied, si_start0>>

\* Lines 350, 453: !mv * D
SiShMv ==
  /\ SiReady("shmv")
  /\ si_fs' = MvInto(si_fs, si_cwd, SiCur.arg)
  /\ SiOk
  /\ UNCHANGED <<si_cwd, si_sets, si_c, si_events, SiGhosts>>

\* Line 406: c = Custodian(handlers, jobs, validators)
SiCustodian ==
  /\ SiReady("custodian")
  /\ si_c' = [ bound |-> TRUE, handlers |-> HandlersArg, jobs |-> JobsArg,
               validators |-> ValidatorsArg ]
  /\ SiOk
  /\ UNCHANGED <<si_cwd, si_fs, si_sets, si_events, SiGhosts>>

\* Lines 407, 431: c.run(). What the job manager does is its own; seen from the
\* notebook it may leave files in the working directory, and it returns or raises.
SiRun ==
  /\ SiReady("run")
  /\ \E made \in SUBSET CustodianFiles, outcome \in {"ok"} \cup RunErrors :
       /\ si_fs' = WriteFiles(si_fs, si_cwd, made)
       /\ si_events' = Append(si_events, Event("run", "c", "", {}, {}, outcome))
       /\ IF outcome = "ok" THEN SiOk ELSE SiFail(outcome)
  /\ UNCHANGED <<si_cwd, si_sets, si_c, SiGhosts>>

\* Line 559: !rm -Rf Si_BandStructure
SiShRmRf ==
  /\ SiReady("shrmrf")
  /\ si_fs' = RmRf(si_fs, si_cwd \o <<SiCur.arg>>)
  /\ SiOk
  /\ UNCHANGED <<si_cwd, si_sets, si_c, si_events, SiGhosts>>

\* A statement that reads an unbound name raises NameError.
SiNameError ==
  /\ SiRunning
  /\ ~(SiCur.uses \subseteq si_names)
  /\ SiFail("NameError")
  /\ UNCHANGED <<si_cwd, si_fs, si_sets, si_c, si_events, SiGhosts>>

\* The file system a run can find: the notebook and ../outputs with its three stages;
\* Si_BandStructure may be left over from an earlier run, and the notebook's directory
\* may hold Jupyter's checkpoint directory.
StartFs(leftover, hidden, extra) ==
  [ dirs |-> {<<>>, StartDir, OutputsDir}
             \cup { OutputsDir \o <<st>> : st \in Stages }
             \cup (IF leftover THEN {WorkDir} ELSE {})
             \cup (IF hidden THEN { StartDir \o <<h>> : h \in HiddenNames } ELSE {}),
    files |-> {StartDir \o <<"Si_bandstructure.ipynb">>}
              \cup { OutputsDir \o <<st, f>> : st \in Stages, f \in PrevCalcFiles }
              \cup { OutputsDir \o <<st, f>> : st \in extra, f \in ExtraOutputs } ]

NotSeen == [ seen |-> FALSE, cwd |-> <<>>, entries |-> {}, subtree |-> {} ]

SiInit ==
  /\ si_pc = 1
  /\ si_names = {}
  /\ si_cwd = StartDir
  /\ \E leftover \in BOOLEAN, hidden \in BOOLEAN, extra \in SUBSET Stages :
       si_fs = StartFs(leftover, hidden, extra)
  /\ si_start0 = si_fs
  /\ si_sets = [n \in SetNames |-> NoSet]
  /\ si_c = NoCustodian
  /\ si_events = <<>>
  /\ si_errors = <<>>
  /\ si_aborted = FALSE
  /\ si_copied = [st \in Stages |-> {}]
  /\ si_before = [d \in {"opt", "static"} |-> NotSeen]

\* The notebook before it is started, in a fresh checkout.
SiOff ==
  /\ si_pc = 1
  /\ si_names = {}
  /\ si_cwd = StartDir
  /\ si_fs = StartFs(FALSE, FALSE, {})
  /\ si_start0 = si_fs
  /\ si_sets = [n \in SetNames |-> NoSet]
  /\ si_c = NoCustodian
  /\ si_events = <<>>
  /\ si_errors = <<>>
  /\ si_aborted = FALSE
  /\ si_copied = [st \in Stages |-> {}]
  /\ si_before = [d \in {"opt", "static"} |-> NotSeen]

\* Every cell was run: a complete top-to-bottom run.
SiComplete == ~si_aborted /\ si_pc > SiLen

\* Cell c has run to its end without an error and no later statement has run.
SiJustRan(c) ==
  /\ ~si_aborted
  /\ si_pc > 1
  /\ SiStmts[si_pc - 1].cell = c
  /\ si_pc <= SiLen => SiStmts[si_pc].cell # c
  /\ \A i \in DOMAIN si_errors : si_errors[i][1] # c

\* pymatgen_core.ipynb before it is started.
CoreOff == CoreInit

(***************************************************************************)
(* pymatgen_core.ipynb, lines 274-278: the substitution round trip         *)
(***************************************************************************)

\* The kernel's objects are held by reference: tr_heap[id] is the species list of
\* structure object id, tr_names maps a name to the object it is bound to (0: unbound),
\* tr_st is the transformation bound to st, tr_given the species of `structure` as it
\* was fetched, tr_eq the value of the comparison of line 278.
VARIABLES tr_pc, tr_heap, tr_names, tr_st, tr_given, tr_eq

trvars == <<tr_pc, tr_heap, tr_names, tr_st, tr_given, tr_eq>>

\* Species a structure handed to the transformation can hold: those of BaNiO3 and F,
\* the species the transformation writes.
TrSpecies == FormulaSpecies \cup {"F"}

TrInputs == StructuresOver(TrSpecies)

TrNames == {"structure", "new_structure", "old_structure"}

NoMap == [ from |-> "", to |-> "" ]

\* Line 275: SubstitutionTransformation({"O":"F"}).
SubstitutionMap == [ from |-> "O", to |-> "F" ]

\* A mutant of Inverse: the inverse is the transformation itself.
InverseSame(map) == map

\* st.inverse: the transformation with the species map reversed.
Inverse(map) == [ from |-> map.to, to |-> map.from ]

\* structure.copy(): a new object with the same species.
Copy(heap, id) == Append(heap, heap[id])

\* map.apply_transformation(heap[id]): the structure is copied and the species are
\* replaced in the copy, which is returned as the newest object of the heap.
ApplyTransformation(heap, map, id) ==
  LET copied == Copy(heap, id)
  IN [ copied EXCEPT ![Len(copied)] = ReplaceSpecies(@, map.from, map.to) ]

\* a == b on structures: same sites with the same species.
StructureEq(heap, a, b) == heap[a] = heap[b]

\* Line 274 has run: `structure` is bound to the fetched structure.
TrInit ==
  /\ tr_pc = 1
  /\ \E s \in TrInputs : tr_heap = <<s>> /\ tr_given = s
  /\ tr_names = [ n \in TrNames |-> IF n = "structure" THEN 1 ELSE 0 ]
  /\ tr_st = NoMap
  /\ tr_eq = "unset"

\* The cell before it is run.
TrOff ==
  /\ tr_pc = 1
  /\ tr_heap = << <<"Ba", "Ni", "O">> >>
  /\ tr_given = <<"Ba", "Ni", "O">>
  /\ tr_names = [ n \in TrNames |-> IF n = "structure" THEN 1 ELSE 0 ]
  /\ tr_st = NoMap
  /\ tr_eq = "unset"

\* Line 275: st = SubstitutionTransformation({"O":"F"})
TrMakeSt ==
  /\ tr_pc = 1
  /\ tr_st' = SubstitutionMap
  /\ tr_pc' = 2
  /\ UNCHANGED <<tr_heap, tr_names, tr_given, tr_eq>>

\* Line 276: new_structure = st.apply_transformation(structure)
TrApply ==
  /\ tr_pc = 2
  /\ tr_heap' = ApplyTransformation(tr_heap, tr_st, tr_names["structure"])
  /\ tr_names' = [ tr_names EXCEPT !["new_structure"] = Len(tr_heap') ]
  /\ tr_pc' = 3
  /\ UNCHANGED <<tr_st, tr_given, tr_eq>>

\* Line 277: old_structure = st.inverse.apply_transformation(new_structure)
TrApplyInverse ==
  /\ tr_pc = 3
  /\ tr_heap' = ApplyTransformation(tr_heap, Inverse(tr_st), tr_names["new_structure"])
  /\ tr_names' = [ tr_names EXCEPT !["old_structure"] = Len(tr_heap') ]
  /\ tr_pc' = 4
  /\ UNCHANGED <<tr_st, tr_given, tr_eq>>

\* Line 278: old_structure == structure
TrCompare ==
  /\ tr_pc = 4
  /\ tr_eq' = IF StructureEq(tr_heap, tr_names["old_structure"], tr_names["structure"])
                THEN "True" ELSE "False"
  /\ tr_pc' = 5
  /\ UNCHANGED <<tr_heap, tr_names, tr_st, tr_given>>

vars == <<shvars, corevars, sivars, trvars>>

\* submit_script before it is started, with $PBS_NODEFILE unset.
ShOff ==
  /\ sh_pc = 1
  /\ sh_env = ""
  /\ sh_log = <<>>
  /\ sh_exit = -1

\* submit_script alone.
InitSubmit == ShInit /\ CoreOff /\ SiOff /\ TrOff

NextSubmit ==
  \/ ShModuleLoad /\ UNCHANGED <<corevars, sivars, trvars>>
  \/ ShRunVasp /\ UNCHANGED <<corevars, sivars, trvars>>
  \/ ShEnd /\ UNCHANGED <<corevars, sivars, trvars>>

SpecSubmit == InitSubmit /\ [][NextSubmit]_vars

\* pymatgen_core.ipynb alone.
InitCore == ShOff /\ CoreInit /\ SiOff /\ TrOff

NextCore ==
  \/ CoreImport /\ UNCHANGED <<shvars, sivars, trvars>>
  \/ CoreCall /\ UNCHANGED <<shvars, sivars, trvars>>
  \/ CoreFetch /\ UNCHANGED <<shvars, sivars, trvars>>
  \/ CoreLoopBody /\ UNCHANGED <<shvars, sivars, trvars>>
  \/ CoreLoopEnd /\ UNCHANGED <<shvars, sivars, trvars>>
  \/ CoreReplaceSpecies /\ UNCHANGED <<shvars, sivars, trvars>>
  \/ CoreForStructure /\ UNCHANGED <<shvars, sivars, trvars>>
  \/ CoreMakeFe /\ UNCHANGED <<shvars, sivars, trvars>>
  \/ CoreNameError /\ UNCHANGED <<shvars, sivars, trvars>>

SpecCore == InitCore /\ [][NextCore]_vars

\* Si_bandstructure.ipynb alone.
InitSi == ShOff /\ CoreOff /\ SiInit /\ TrOff

NextSi ==
  \/ SiImport /\ UNCHANGED <<shvars, corevars, trvars>>
  \/ SiCall /\ UNCHANGED <<shvars, corevars, trvars>>
  \/ SiOsMkdir /\ UNCHANGED <<shvars, corevars, trvars>>
  \/ SiOsChdir /\ UNCHANGED <<shvars, corevars, trvars>>
  \/ SiBuild /\ UNCHANGED <<shvars, corevars, trvars>>
  \/ SiFromPrev /\ UNCHANGED <<shvars, corevars, trvars>>
  \/ SiWriteInput /\ UNCHANGED <<shvars, corevars, trvars>>
  \/ SiPrintKpoints /\ UNCHANGED <<shvars, corevars, trvars>>
  \/ SiCp /\ UNCHANGED <<shvars, corevars, trvars>>
  \/ SiReadFile /\ UNCHANGED <<shvars, corevars, trvars>>
  \/ SiShMkdir /\ UNCHANGED <<shvars, corevars, trvars>>
  \/ SiShMv /\ UNCHANGED <<shvars, corevars, trvars>>
  \/ SiCustodian /\ UNCHANGED <<shvars, corevars, trvars>>
  \/ SiRun /\ UNCHANGED <<shvars, corevars, trvars>>
  \/ SiShRmRf /\ UNCHANGED <<shvars, corevars, trvars>>
  \/ SiNameError /\ UNCHANGED <<shvars, corevars, trvars>>

SpecSi == InitSi /\ [][NextSi]_vars

\* The substitution round trip of lines 274-278 alone, over every structure of TrInputs.
InitSubst == ShOff /\ CoreOff /\ SiOff /\ TrInit

NextSubst ==
  \/ TrMakeSt /\ UNCHANGED <<shvars, corevars, sivars>>
  \/ TrApply /\ UNCHANGED <<shvars, corevars, sivars>>
  \/ TrApplyInverse /\ UNCHANGED <<shvars, corevars, sivars>>
  \/ TrCompare /\ UNCHANGED <<shvars, corevars, sivars>>

SpecSubst == InitSubst /\ [][NextSubst]_vars

\* The programs side by side.
Init == ShInit /\ CoreInit /\ SiInit /\ TrInit

Next == NextSubmit \/ NextCore \/ NextSi \/ NextSubst

Spec == Init /\ [][Next]_vars

(***************************************************************************)
(* Claims about submit_script (SpecSubmit)                                 *)
(***************************************************************************)

\* The command names of the lines executed so far.
ShTrace == [i \in DOMAIN sh_log |-> sh_log[i].argv0]

IsPrefix(a, b) == Len(a) <= Len(b) /\ \A i \in 1..Len(a) : a[i] = b[i]

\* C1: every run of submit_script executes module load and then run_vasp, each exactly
\* once, whatever the exit status of either, and then ends: at any moment the lines
\* executed are a prefix of <<module, run_vasp>>, once past the last line they are
\* exactly these two, and until the script has exited it can take a step.
C1_StraightLine ==
  /\ IsPrefix(ShTrace, <<"module", "run_vasp">>)
  /\ sh_pc > 2 => ShTrace = <<"module", "run_vasp">>
  /\ ~ShEnded => ENABLED NextSubmit
  /\ ShEnded => sh_exit = sh_log[2].status

\* C1 witness: the script has exited although module load failed, and run_vasp ran.
C1_Witness ==
  /\ ShEnded
  /\ sh_log[1].status # 0
  /\ sh_log[2].argv0 = "run_vasp"

\* C2 as stated: a run executes one and only one command line.
C2_OneCommandOnly == ShEnded => Len(sh_log) = 1

\* C2 as amended: a run executes exactly two command lines, the environment set-up
\* `module load` first and then one and only one job-launching command line, run_vasp
\* with the mpirun command line as its -c argument.
C2_TwoLinesOneLauncher ==
  ShEnded =>
    /\ Len(sh_log) = 2
    /\ sh_log[1].argv0 = "module" /\ ~sh_log[1].launcher
    /\ sh_log[2].argv0 = "run_vasp" /\ sh_log[2].launcher
    /\ Cardinality({i \in DOMAIN sh_log : sh_log[i].launcher}) = 1

\* C2 witness: the script has exited and its one launcher line ran with the
\* scheduler's node file expanded into the mpirun command line.
C2_Witness ==
  /\ ShEnded
  /\ sh_env # ""
  /\ \E i \in DOMAIN sh_log : sh_log[i].launcher /\ sh_log[i].inner[3] = sh_env

\* C12: the process count the script passes to mpirun with -np equals the number of
\* cores it requests from the scheduler, nodes x ppn = 1 x 24 = 24: the job neither
\* oversubscribes the allocation nor leaves requested cores unused.
C12_NpEqualsRequestedCores ==
  /\ RequestedCores = 24
  /\ \A i \in DOMAIN sh_log :
       sh_log[i].launcher =>
         /\ sh_log[i].inner[1] = "mpirun"
         /\ NpOf(sh_log[i].inner) = RequestedCores
  /\ ShEnded => \E i \in DOMAIN sh_log : sh_log[i].launcher

\* C12 witness: the script has ended after launching mpirun under the scheduler, with
\* the scheduler's node file and a process count of 24.
C12_Witness ==
  /\ ShEnded
  /\ \E i \in DOMAIN sh_log :
       /\ sh_log[i].launcher
       /\ sh_log[i].inner[3] = "/var/spool/torque/aux/job"
       /\ NpOf(sh_log[i].inner) = 24

(***************************************************************************)
(* Claims about pymatgen_core.ipynb (SpecCore)                             *)
(***************************************************************************)

\* The order the notebook is described to call the library in.
KindOrder == <<"lattice", "structure", "symmetry", "matcher", "xrd", "tensor", "slab">>

\* C3: in a top-to-bottom run the first call of each kind occurs in the order lattice,
\* structure, symmetry analyzer, structure matcher, XRD calculator, tensor fitting, slab
\* generation: no later kind is called before the first call of an earlier kind, and
\* when the run is over each kind has been called.
C3_FirstCallsInOrder ==
  /\ IsPrefix(core_first, KindOrder)
  /\ CoreRunOver => core_first = KindOrder

\* C8: after the Exercise 1 cell has run, every site of the fetched structure that held
\* oxygen holds chlorine, and no site holds oxygen.
C8_OxygenBecomesChlorine ==
  CoreJustRan(6) =>
    /\ \A i \in DOMAIN core_fetched : core_fetched[i] = "O" => core_structure[i] = "Cl"
    /\ \A i \in DOMAIN core_structure : core_structure[i] # "O"

(***************************************************************************)
(* Claims about Si_bandstructure.ipynb (SpecSi)                            *)
(***************************************************************************)

\* The stages in the order the introduction gives them (line 13).
StageOrder == <<"opt", "static", "nonscf">>

IsBuild(e) == e.ev = "build"

\* The stages of the input sets built so far, in the order they were built.
BuildStages ==
  LET built == SelectSeq(si_events, IsBuild)
  IN [i \in DOMAIN built |-> built[i].stage]

\* The ../outputs directory whose files belong in the directory from_prev_calc reads.
StageOfDir(dir) == IF dir = "opt" THEN "Si_Opt" ELSE "Si_Static"

\* C4: the input sets are built in the order optimization, static, non-SCF, and whenever
\* from_prev_calc(D) builds one, D exists in the working directory at that moment and
\* holds the input files written for the previous stage and the output files that were
\* copied in for it.
C4_StagesAndPrevCalc ==
  /\ IsPrefix(BuildStages, StageOrder)
  /\ \A i \in DOMAIN si_events :
       LET e == si_events[i]
       IN (e.ev = "build" /\ SetCtor(e.set).prev # "") =>
            /\ InputFiles \subseteq e.held
            /\ si_copied[StageOfDir(SetCtor(e.set).prev)] \subseteq e.held
            /\ \E j \in 1..i - 1 :
                 /\ si_events[j].ev = "write"
                 /\ si_events[j].cwd = e.cwd
                 /\ SetCtor(si_events[j].set).stage = SetCtor(e.set).prev

\* C4 witness: the non-SCF set has been built from ./static, which held the static
\* inputs and the copied static outputs, after the static set was built from ./opt.
C4_Witness ==
  /\ BuildStages = StageOrder
  /\ si_cwd = WorkDir
  /\ si_copied["Si_Static"] # {}
  /\ \E i \in DOMAIN si_events :
       /\ si_events[i].ev = "build"
       /\ si_events[i].set = "NonSCF_vis"
       /\ InputFiles \cup si_copied["Si_Static"] \subseteq si_events[i].held

IsRun(e) == e.ev = "run"

\* Every c.run() that raised reached the kernel as the error of its cell, unchanged,
\* and no cell called c.run() twice.
RunErrorsPropagate ==
  /\ \A i \in DOMAIN si_events :
       LET e == si_events[i]
       IN (e.ev = "run" /\ e.outcome # "ok") =>
            \E j \in DOMAIN si_errors :
              si_errors[j][1] = e.cell /\ si_errors[j][3] = e.outcome
  /\ \A i, j \in DOMAIN si_events :
       (si_events[i].ev = "run" /\ si_events[j].ev = "run"
          /\ si_events[i].cell = si_events[j].cell) => i = j
  /\ \A j \in DOMAIN si_errors :
       si_errors[j][3] \in RunErrors \ {"OSError"} =>
         \E i \in DOMAIN si_events :
           /\ si_events[i].ev = "run"
           /\ si_events[i].cell = si_errors[j][1]
           /\ si_events[i].outcome = si_errors[j][3]

C7_TemporaryDirectory ==
  SiComplete =>
    /\ si_cwd = StartDir
    /\ ~Exists(si_fs, WorkDir)
    /\ Children(si_fs, StartDir) = Children(si_start0, StartDir)

\* C7 as amended: after a complete run, if Si_BandStructure did not exist when the run
\* began, the working directory is the starting directory, Si_BandStructure does not
\* exist and the starting directory holds what it held before; if it did exist (the
\* Setup cell's os.mkdir raised and os.chdir was skipped), the working directory is the
\* parent of the starting directory and the starting directory's entries have changed.
C7_TemporaryUnlessLeftOver ==
  SiComplete =>
    IF ~Exists(si_start0, WorkDir)
      THEN /\ si_cwd = StartDir
           /\ ~Exists(si_fs, WorkDir)
           /\ Children(si_fs, StartDir) = Children(si_start0, StartDir)
           /\ Subtree(si_fs, StartDir) = Subtree(si_start0, StartDir)
      ELSE /\ si_cwd = Parent(StartDir)
           /\ Children(si_fs, StartDir) # Children(si_start0, StartDir)

\* C7 witness: a complete run that began without Si_BandStructure, worked in it (the
\* non-SCF inputs were written there) and went on past a c.run() that raised.
C7_Witness ==
  /\ SiComplete
  /\ ~Exists(si_start0, WorkDir)
  /\ \E i \in DOMAIN si_events :
       /\ si_events[i].ev = "write"
       /\ si_events[i].set = "NonSCF_vis"
       /\ si_events[i].cwd = WorkDir
  /\ si_errors # <<>>

\* The clean-up cell of directory D has just run.
CleanedUp(D) == SiJustRan(IF D = "opt" THEN 12 ELSE 16)

\* C10 as stated: after each clean-up cell the working directory holds exactly D, every
\* entry it held before is directly inside D, nothing below it was lost, and after the
\* second clean-up opt is inside static.
C10_OnlyDRemains ==
  \A D \in {"opt", "static"} :
    CleanedUp(D) =>
      /\ Children(si_fs, si_cwd) = {D}
      /\ \A e \in si_before[D].entries : Exists(si_fs, si_cwd \o <<D, e>>)
      /\ Subtree(si_fs, si_cwd \o <<D>>) = si_before[D].subtree
      /\ D = "static" => /\ si_cwd \o <<"static", "opt">> \in si_fs.dirs
                         /\ ~Exists(si_fs, si_cwd \o <<"opt">>)

\* C10 as amended: after each clean-up cell the working directory holds D and the
\* hidden (dot) entries it held before, which * does not match; every other entry it
\* held before is directly inside D with all that was below it, D was not moved, and
\* after the second clean-up opt is inside static and not in the working directory.
C10_OnlyDAndHiddenRemain ==
  \A D \in {"opt", "static"} :
    CleanedUp(D) =>
      /\ Children(si_fs, si_cwd) = {D} \cup (si_before[D].entries \cap HiddenNames)
      /\ \A e \in si_before[D].entries \ HiddenNames : Exists(si_fs, si_cwd \o <<D, e>>)
      /\ Subtree(si_fs, si_cwd \o <<D>>)
           = { p \in si_before[D].subtree : p[1] \notin HiddenNames }
      /\ si_cwd \o <<D>> \in si_fs.dirs
      /\ D = "static" => /\ si_cwd \o <<"static", "opt">> \in si_fs.dirs
                         /\ ~Exists(si_fs, si_cwd \o <<"opt">>)

\* C10 witness: the second clean-up has run in Si_BandStructure: static holds opt, the
\* static inputs and the copied outputs, and opt still holds the optimization's files.
C10_Witness ==
  /\ CleanedUp("static")
  /\ si_cwd = WorkDir
  /\ InputFiles \cup PrevCalcFiles \subseteq Children(si_fs, WorkDir \o <<"static">>)
  /\ InputFiles \cup PrevCalcFiles \subseteq Children(si_fs, WorkDir \o <<"static", "opt">>)

(***************************************************************************)
(* Claims about the substitution round trip (SpecSubst)                    *)
(***************************************************************************)

\* The species held by the object a name is bound to.
TrValue(n) == tr_heap[tr_names[n]]

HasSpecies(s, sp) == \E i \in DOMAIN s : s[i] = sp

====
